---- MODULE Spec2Model ----
(***************************************************************************)
(* Model of djboni/c_tdd: the AVR port layer of include/port.h (interrupt  *)
(* flag, critical sections, tick counter, idle wait), the production       *)
(* entry point src/prodmain.c in its native and AVR builds, and the        *)
(* compile-time tick-rate arithmetic.                                      *)
(*                                                                         *)
(* Context of execution: one normal-context thread (main) and one          *)
(* interrupt source (the timer overflow).  The interrupt handler runs to   *)
(* completion between two steps of main whenever the global interrupt     *)
(* flag (SREG bit 7), the timer interrupt enable (TOIE) and the pending    *)
(* overflow flag (TOV) are all set.                                        *)
(***************************************************************************)
EXTENDS Integers, Sequences, FiniteSets, TLC

(***************************************************************************)
(* Program constants                                                       *)
(***************************************************************************)
\* typedef uint32_t tick_t; typedef int32_t difftick_t;
TickBits == 32
DiffTickBits == 32
\* uint8_t __istate_val: an AVR register, SREG included, is one 8-bit byte
ByteBits == 8
F_CPU == 16000000
TIMER_PRESCALER == 64
\* an 8-bit timer overflows every 256 counts (the 256.0 of TICK_PERIOD)
TimerCounts == 256

(***************************************************************************)
(* Bounds of the model                                                     *)
(***************************************************************************)
\* number of handler runs explored per behaviour
MaxTicks == 3
\* nesting depth of the application's own critical sections
MaxNest == 2
\* largest argc of the native command line
MaxArgc == 4
\* extra small interrupt counts tried by the tick-delta computation
MaxK == 3

\* a 32-bit counter is stored in, and read with, TickBytes 8-bit bytes
ByteRange == 2 ^ ByteBits
TickBytes == TickBits \div ByteBits

\* bit 7 of SREG is the global interrupt enable flag I
SREG_I == 2 ^ (ByteBits - 1)

(***************************************************************************)
(* port.h: integer types.  A tick_t (uint32_t) value is held as the AVR    *)
(* holds it: its four bytes, least significant first; arithmetic on it is  *)
(* byte-wise with carry, and the carry out of the top byte is dropped.     *)
(***************************************************************************)
\* the tick_t with value n, for 0 <= n < 2^31
tick_t_of(n) == [i \in 1..TickBytes |-> (n \div (ByteRange ^ (i - 1))) % ByteRange]

RECURSIVE add_carry(_, _, _)
add_carry(x, y, c) ==
    IF x = <<>> THEN <<>>
    ELSE LET s == Head(x) + Head(y) + c
         IN  <<s % ByteRange>> \o add_carry(Tail(x), Tail(y), s \div ByteRange)

ones_complement(x) == [i \in 1..Len(x) |-> ByteRange - 1 - x[i]]

TickMax == [i \in 1..TickBytes |-> ByteRange - 1]

\* faulty variant: addition that saturates at the maximum instead of wrapping
tick_add_saturating(x, y) ==
    IF add_carry(x \o <<0>>, y \o <<0>>, 0)[TickBytes + 1] = 1
    THEN TickMax
    ELSE add_carry(x, y, 0)

\* x + y in tick_t: unsigned addition modulo 2^32
tick_add(x, y) == add_carry(x, y, 0)

\* x - y in tick_t: unsigned subtraction modulo 2^32
tick_sub(x, y) == add_carry(x, ones_complement(y), 1)

\* the value of a byte string whose top bit is clear (below 2^31)
RECURSIVE bytes_value(_)
bytes_value(x) ==
    IF x = <<>> THEN 0 ELSE Head(x) + ByteRange * bytes_value(Tail(x))

\* two's complement value of a byte string
signed_value(x) ==
    IF x[Len(x)] >= ByteRange \div 2
    THEN 0 - bytes_value(ones_complement(x)) - 1
    ELSE bytes_value(x)

\* faulty variant: a 16-bit delta type (what `int` is on AVR)
difftick_t_int16(x) == signed_value(SubSeq(x, 1, 2))

\* conversion of a tick_t to difftick_t (int32_t): two's complement reinterpretation
difftick_t(x) == signed_value(SubSeq(x, 1, DiffTickBits \div ByteBits))

\* (difftick_t)(t2 - t1) with t1, t2 of type tick_t
tick_delta(t2, t1) == difftick_t(tick_sub(t2, t1))

\* Counter values a behaviour starts from: 0 is the value at reset; the
\* others stand for the counter after that many earlier ticks (the
\* handler's behaviour depends on the counter value only): 255, 2^31 - 2
\* and 2^32 - 2.
TickStarts ==
    { tick_t_of(0),
      tick_t_of(ByteRange - 1),
      tick_sub(tick_add(tick_t_of(2 ^ 30), tick_t_of(2 ^ 30)), tick_t_of(2)),
      tick_sub(tick_t_of(0), tick_t_of(2)) }

(***************************************************************************)
(* port.h: interrupt flag and critical section macros                      *)
(***************************************************************************)
IFlag(sreg) == (sreg \div SREG_I) % 2 = 1

\* faulty variant: INTERRUPTS_ENABLE() that compiles to nothing
sei_nop(sreg) == sreg

\* INTERRUPTS_ENABLE(): sei
sei(sreg) == IF IFlag(sreg) THEN sreg ELSE sreg + SREG_I

\* faulty variant: cli that leaves the flag alone
cli_nop(sreg) == sreg

\* INTERRUPTS_DISABLE(): cli
cli(sreg) == IF IFlag(sreg) THEN sreg - SREG_I ELSE sreg

\* faulty variant: the flag is cleared before SREG is copied
CRITICAL_ENTER_save_after_cli(sreg) == [istate_val |-> cli(sreg), sreg |-> cli(sreg)]

\* CRITICAL_ENTER(): in __istate_val, SREG ; cli
CRITICAL_ENTER(sreg) == [istate_val |-> sreg % ByteRange, sreg |-> cli(sreg)]

\* faulty variant: exit that always enables interrupts
CRITICAL_EXIT_sei(sreg, istate_val) == sei(sreg)

\* CRITICAL_EXIT(): out SREG, __istate_val
CRITICAL_EXIT(sreg, istate_val) == istate_val

(***************************************************************************)
(* port.h: tick rate                                                       *)
(***************************************************************************)
\* faulty variant: truncation without the + 0.5
TICKS_PER_SECOND_truncated(f_cpu, prescaler) ==
    tick_t_of(f_cpu \div (TimerCounts * prescaler))

\* TICK_PERIOD == 256.0 * prescaler / f_cpu  (seconds, a rational)
\* TICKS_PER_SECOND == (tick_t)(1.0 / TICK_PERIOD + 0.5)
\*   1/TICK_PERIOD + 1/2 = (2 f_cpu + 256 prescaler) / (512 prescaler),
\*   and the conversion of a positive double to tick_t truncates.
TICKS_PER_SECOND(f_cpu, prescaler) ==
    tick_t_of((2 * f_cpu + TimerCounts * prescaler) \div (2 * TimerCounts * prescaler))

(***************************************************************************)
(* Tick counter storage (port layer, not among the sources: modelled from  *)
(* the specification, sections 3, 4.2 and 5)                               *)
(***************************************************************************)
\* the counter after one handler run: counter++
tick_increment(t) == tick_add(t, tick_t_of(1))

\* the counter after k handler runs from value t (k a tick_t)
ticks_after(t, k) == tick_add(t, k)

(***************************************************************************)
(* C library functions used by main                                        *)
(***************************************************************************)
Digits == <<"0", "1", "2", "3", "4", "5", "6", "7", "8", "9">>

isdigit(c) == \E d \in 1..Len(Digits) : Digits[d] = c

isspace(c) == c \in {" ", "\t", "\n"}

digit_val(c) == (CHOOSE d \in 1..Len(Digits) : Digits[d] = c) - 1

RECURSIVE atoi_digits(_, _)
atoi_digits(s, acc) ==
    IF s = <<>> \/ ~isdigit(Head(s))
    THEN acc
    ELSE atoi_digits(Tail(s), 10 * acc + digit_val(Head(s)))

RECURSIVE skip_space(_)
skip_space(s) == IF s # <<>> /\ isspace(Head(s)) THEN skip_space(Tail(s)) ELSE s

\* atoi: optional white space, optional sign, then the longest run of digits;
\* text that does not start with a number converts to 0
atoi(s) ==
    LET t == skip_space(s)
    IN  IF t # <<>> /\ Head(t) = "-" THEN 0 - atoi_digits(Tail(t), 0)
        ELSE IF t # <<>> /\ Head(t) = "+" THEN atoi_digits(Tail(t), 0)
        ELSE atoi_digits(t, 0)

RECURSIVE fmt_u(_)
fmt_u(n) ==
    IF n < 10 THEN <<Digits[n + 1]>>
    ELSE Append(fmt_u(n \div 10), Digits[(n % 10) + 1])

\* printf("%d", n)
fmt_d(n) == IF n < 0 THEN <<"-">> \o fmt_u(0 - n) ELSE fmt_u(n)

(***************************************************************************)
(* add.h (add.c is not among the sources: modelled from the specification  *)
(* and from the expectations of test/test_add.c)                           *)
(***************************************************************************)
add(x, y) == x + y

(***************************************************************************)
(* Inputs                                                                  *)
(***************************************************************************)
\* command-line words of the native build, as sequences of characters
ArgWords ==
    { <<"0">>, <<"1">>, <<"2">>, <<"-", "3">>, <<"1", "2">>, <<"x">>, <<"3", "x">> }

ProgName == <<"p", "r", "o", "d">>

\* the command lines of the native build: argv[0] and up to MaxArgc - 1 words
ArgVectors ==
    UNION { { <<ProgName>> \o w : w \in [1..n -> ArgWords] } : n \in 0..(MaxArgc - 1) }

\* compile-time configurations tried by the tick-rate computation
CpuClocks == {8000000, F_CPU, 20000000}
Prescalers == {1, TIMER_PRESCALER, 256, 1024}

\* interrupt counts tried by the tick-delta computation, as tick_t values:
\* 0..MaxK, 2^15, 2^31 - 1, 2^31 and 2^32 - 1
DeltaCounts ==
    { tick_t_of(k) : k \in 0..MaxK } \cup
    { tick_t_of(2 ^ 15),
      tick_sub(tick_add(tick_t_of(2 ^ 30), tick_t_of(2 ^ 30)), tick_t_of(1)),
      tick_add(tick_t_of(2 ^ 30), tick_t_of(2 ^ 30)),
      TickMax }

\* a reading that has not been taken, a section that has not been completed
NoReading == [valid |-> FALSE, val |-> <<>>, n |-> 0]
NoSection == [valid |-> FALSE, pre |-> 0, post |-> 0, depth |-> 0]

VARIABLES
    build,      \* "native" or "avr": whether __AVR__ is defined
    prog,       \* the body run in normal context: "prodmain", "testmain", or "app" (a client of port.h)
    pc,         \* position of the normal-context thread
    argc, argv, \* main's parameters
    a, b, result,           \* main's locals
    retval,     \* the local of the test program's main
    out, err,   \* stdout, stderr (sequences of lines)
    exit_code,  \* the exit code of the process once main has returned, as a set
    SREG,       \* AVR status register
    TIMSK_TOIE, \* timer overflow interrupt enable
    TIFR_TOV,   \* timer overflow flag (interrupt pending)
    timer_on,   \* the timer has been configured and is counting
    tick,       \* the tick counter, as its bytes
    istate,     \* the __istate_val of every open critical section, innermost first
    rd,         \* bytes of the counter loaded so far by port_get_tick
    ret,        \* value returned by the last completed port_get_tick, or <<>>
    \* history variables
    tick0,      \* counter value at the start
    nisr,       \* number of handler runs so far
    held,       \* values the counter held during the port_get_tick call in progress
    pre,        \* SREG just before each open CRITICAL_ENTER, innermost first
    cs_max,     \* deepest nesting reached in the open outermost critical section
    cs_done,    \* the last completed outermost critical section
    cs_isr,     \* a handler ran while a critical section was open
    reading,    \* the last reading: value and handler count when it was taken
    prev,       \* the reading before it
    cs_reads,   \* readings taken inside the open application critical section
    slept,      \* idle_wait_interrupt calls that have returned
    boot,       \* the start-up calls (lines 17-20 of main) made so far, in order
    \* tick-rate and tick-delta computations
    calc

vars ==
    << build, prog, pc, argc, argv, a, b, result, retval, out, err, exit_code,
       SREG, TIMSK_TOIE, TIFR_TOV, timer_on, tick, istate, rd, ret,
       tick0, nisr, held, pre, cs_max, cs_done, cs_isr, reading, prev,
       cs_reads, slept, boot, calc >>

cliVars == << argc, argv, a, b, result, retval, out, err, exit_code >>
hwVars == << SREG, TIMSK_TOIE, TIFR_TOV, timer_on, tick >>
csVars == << istate, pre, cs_max, cs_done >>
rdVars == << rd, ret, held, reading, prev, cs_reads >>
histVars == << tick0, nisr, cs_isr, slept, boot >>

Max(x, y) == IF x >= y THEN x ELSE y
Min(x, y) == IF x <= y THEN x ELSE y

(***************************************************************************)
(* Initial states                                                          *)
(***************************************************************************)
InitHistory ==
    /\ nisr = 0
    /\ held = {}
    /\ pre = <<>>
    /\ cs_max = 0
    /\ cs_done = NoSection
    /\ cs_isr = FALSE
    /\ reading = NoReading
    /\ prev = NoReading
    /\ cs_reads = 0
    /\ slept = FALSE
    /\ boot = <<>>

InitLocals ==
    /\ a = 0 /\ b = 0 /\ result = 0 /\ retval = 0
    /\ out = <<>> /\ err = <<>> /\ exit_code = {}
    /\ istate = <<>> /\ rd = <<>> /\ ret = <<>>

\* at reset SREG is 0 and the timer and its interrupt are off
InitHardware ==
    /\ SREG = 0
    /\ TIMSK_TOIE = FALSE
    /\ TIFR_TOV = FALSE
    /\ timer_on = FALSE

\* native build: main is entered with the command line of the process
InitNative ==
    /\ build = "native"
    /\ prog = "prodmain"
    /\ pc = "argcheck"
    /\ argv \in ArgVectors
    /\ argc = Len(argv)
    /\ tick = tick_t_of(0)
    /\ tick0 = tick

\* AVR build: main is entered from reset, without a command line
InitAvr ==
    /\ build = "avr"
    /\ prog \in {"prodmain", "testmain", "app"}
    /\ pc = "start"
    /\ argc = 0
    /\ argv = <<>>
    /\ tick \in TickStarts
    /\ tick0 = tick

Init ==
    /\ InitNative \/ InitAvr
    /\ InitLocals
    /\ InitHardware
    /\ InitHistory
    /\ calc = <<>>

(***************************************************************************)
(* prodmain.c: main                                                        *)
(***************************************************************************)
\* faulty variant: the replacement command line lacks the second operand
MainOverrideArgs_one_operand ==
    /\ pc = "start"
    /\ build = "avr"
    /\ prog # "testmain"
    /\ argv' = << <<"e", "x", "e", "c">>, <<"1">> >>
    /\ argc' = Len(argv')
    /\ pc' = "port_init"
    /\ UNCHANGED << build, prog, a, b, result, retval, out, err, exit_code, calc >>
    /\ UNCHANGED << hwVars, csVars, rdVars, histVars >>

\* lines 11-15: the AVR build replaces the command line
MainOverrideArgs ==
    /\ pc = "start"
    /\ build = "avr"
    /\ prog # "testmain"
    /\ argv' = << <<"e", "x", "e", "c">>, <<"1">>, <<"2">> >>
    /\ argc' = Len(argv')
    /\ pc' = "port_init"
    /\ UNCHANGED << build, prog, a, b, result, retval, out, err, exit_code, calc >>
    /\ UNCHANGED << hwVars, csVars, rdVars, histVars >>

\* line 17: port_init() configures the timer and leaves its interrupt disabled
PortInit ==
    /\ pc = "port_init"
    /\ timer_on' = TRUE
    /\ TIMSK_TOIE' = FALSE
    /\ pc' = "serial_init"
    /\ UNCHANGED << build, prog, cliVars, SREG, TIFR_TOV, tick, calc >>
    /\ UNCHANGED << csVars, rdVars, tick0, nisr, cs_isr, slept >>
    /\ boot' = Append(boot, "port_init")

\* line 18: serial_init(115200)
SerialInit ==
    /\ pc = "serial_init"
    /\ pc' = "enable_tick"
    /\ UNCHANGED << build, prog, cliVars, hwVars, csVars, rdVars, tick0, nisr, cs_isr, slept, calc >>
    /\ boot' = Append(boot, "serial_init")

\* line 19: port_enable_tick_interrupt() arms the timer interrupt
PortEnableTickInterrupt ==
    /\ pc = "enable_tick"
    /\ TIMSK_TOIE' = TRUE
    /\ pc' = "sei"
    /\ UNCHANGED << build, prog, cliVars, SREG, TIFR_TOV, timer_on, tick, calc >>
    /\ UNCHANGED << csVars, rdVars, tick0, nisr, cs_isr, slept >>
    /\ boot' = Append(boot, "port_enable_tick_interrupt")

\* line 20: INTERRUPTS_ENABLE()
MainInterruptsEnable ==
    /\ pc = "sei"
    /\ SREG' = sei(SREG)
    /\ pc' = CASE prog = "app" -> "app"
                [] prog = "testmain" -> "unity"
                [] OTHER -> "argcheck"
    /\ UNCHANGED << build, prog, cliVars, TIMSK_TOIE, TIFR_TOV, timer_on, tick, calc >>
    /\ UNCHANGED << csVars, rdVars, tick0, nisr, cs_isr, slept >>
    /\ boot' = Append(boot, "INTERRUPTS_ENABLE")

\* faulty variant: the usage error does not set a failure code
MainExitCode_zero(failed) == 0

\* the process exit code: return 1 (line 28) or return 0 (line 44)
MainExitCode(failed) == IF failed THEN 1 ELSE 0

\* the two lines written to stderr by lines 26-27
UsageLines(name) ==
    << <<"Usage: ">> \o name \o <<" A B", "\n">>,
       <<"ERROR: expected two arguments", "\n">> >>

\* lines 25-29: if (argc != 3) { usage on stderr; return 1; }
MainArgCheck ==
    /\ pc = "argcheck"
    /\ IF argc # 3
       THEN /\ err' = err \o UsageLines(argv[1])
            /\ exit_code' = {MainExitCode(TRUE)}
            /\ pc' = "exited"
       ELSE /\ pc' = "atoi"
            /\ UNCHANGED << err, exit_code >>
    /\ UNCHANGED << build, prog, retval, argc, argv, a, b, result, out, calc >>
    /\ UNCHANGED << hwVars, csVars, rdVars, histVars >>

\* faulty variant: the operands are taken one position too early
MainAtoi_shifted ==
    /\ pc = "atoi"
    /\ a' = atoi(argv[1])
    /\ b' = atoi(argv[2])
    /\ pc' = "add"
    /\ UNCHANGED << build, prog, retval, argc, argv, result, out, err, exit_code, calc >>
    /\ UNCHANGED << hwVars, csVars, rdVars, histVars >>

\* lines 31-32: a = atoi(argv[1]); b = atoi(argv[2]);  (C indices 1 and 2)
MainAtoi ==
    /\ pc = "atoi"
    /\ a' = atoi(argv[2])
    /\ b' = atoi(argv[3])
    /\ pc' = "add"
    /\ UNCHANGED << build, prog, retval, argc, argv, result, out, err, exit_code, calc >>
    /\ UNCHANGED << hwVars, csVars, rdVars, histVars >>

\* line 34: result = add(a, b);
MainAdd ==
    /\ pc = "add"
    /\ result' = add(a, b)
    /\ pc' = "printf"
    /\ UNCHANGED << build, prog, retval, argc, argv, a, b, out, err, exit_code, calc >>
    /\ UNCHANGED << hwVars, csVars, rdVars, histVars >>

\* line 36: printf("%d\n", result); then the idle loop (AVR) or return 0
MainPrintf ==
    /\ pc = "printf"
    /\ out' = Append(out, fmt_d(result) \o <<"\n">>)
    /\ pc' = IF build = "avr" THEN "idle" ELSE "return0"
    /\ UNCHANGED << build, prog, retval, argc, argv, a, b, result, err, exit_code, calc >>
    /\ UNCHANGED << hwVars, csVars, rdVars, histVars >>

\* line 44: return 0;
MainReturn ==
    /\ pc = "return0"
    /\ exit_code' = {MainExitCode(FALSE)}
    /\ pc' = "exited"
    /\ UNCHANGED << build, prog, retval, argc, argv, a, b, result, out, err, calc >>
    /\ UNCHANGED << hwVars, csVars, rdVars, histVars >>

\* prodmain.c lines 39-41, testmain.c lines 26-28: while (1) { idle_wait_interrupt(); }
MainIdle ==
    /\ pc = "idle"
    /\ pc' = "sleep"
    /\ UNCHANGED << build, prog, cliVars, hwVars, csVars, rdVars, histVars, calc >>

(***************************************************************************)
(* testmain.c: main of the test program (AVR build)                        *)
(***************************************************************************)
\* lines 11-15: the AVR build replaces the command line
TestOverrideArgs ==
    /\ pc = "start"
    /\ build = "avr"
    /\ prog = "testmain"
    /\ argv' = << <<"t", "e", "s", "t">>, <<"-", "s">> >>
    /\ argc' = Len(argv')
    /\ pc' = "port_init"
    /\ UNCHANGED << build, prog, a, b, result, retval, out, err, exit_code, calc >>
    /\ UNCHANGED << hwVars, csVars, rdVars, histVars >>

\* test_add.c: the expected value and the operands of each TEST_ASSERT_EQUAL
AddTests ==
    { [expected |-> 0, x |-> 0, y |-> 0],
      [expected |-> 1, x |-> 0, y |-> 1],
      [expected |-> 1, x |-> 1, y |-> 0],
      [expected |-> 3, x |-> 1, y |-> 2],
      [expected |-> 5, x |-> 2, y |-> 3] }

\* line 23: retval = UnityMain(argc, argv, run_all_tests): the number of failed tests
TestUnityMain ==
    /\ pc = "unity"
    /\ retval' = Cardinality({ t \in AddTests : add(t.x, t.y) # t.expected })
    /\ pc' = "idle"
    /\ UNCHANGED << build, prog, argc, argv, a, b, result, out, err, exit_code, calc >>
    /\ UNCHANGED << hwVars, csVars, rdVars, histVars >>

(***************************************************************************)
(* Critical sections: CRITICAL_VAL(); CRITICAL_ENTER(); ... CRITICAL_EXIT()*)
(* Each open section has its own __istate_val (a block-scoped local), so   *)
(* the saved values form a stack.  The handler preserves SREG, so the two  *)
(* instructions of CRITICAL_ENTER are taken as one step.                   *)
(***************************************************************************)
DoCriticalEnter ==
    LET e == CRITICAL_ENTER(SREG)
    IN  /\ SREG' = e.sreg
        /\ istate' = <<e.istate_val>> \o istate
        /\ pre' = <<SREG>> \o pre
        /\ cs_max' = IF istate = <<>> THEN 1 ELSE Max(cs_max, Len(istate) + 1)
        /\ cs_done' = IF istate = <<>> THEN NoSection ELSE cs_done

DoCriticalExit ==
    /\ istate # <<>>
    /\ SREG' = CRITICAL_EXIT(SREG, Head(istate))
    /\ istate' = Tail(istate)
    /\ pre' = Tail(pre)
    /\ cs_done' = IF Len(istate) = 1
                  THEN [valid |-> TRUE, pre |-> Head(pre), post |-> SREG', depth |-> cs_max]
                  ELSE cs_done
    /\ cs_max' = IF Len(istate) = 1 THEN 0 ELSE cs_max

(***************************************************************************)
(* A client of port.h running in normal context after start-up: it opens   *)
(* and closes properly nested critical sections, switches interrupts       *)
(* outside of them, reads the tick counter and waits for interrupts.       *)
(***************************************************************************)
AppCriticalEnter ==
    /\ pc = "app"
    /\ Len(istate) < MaxNest
    /\ DoCriticalEnter
    /\ cs_reads' = IF istate = <<>> THEN 0 ELSE cs_reads
    /\ UNCHANGED << build, prog, pc, cliVars, calc >>
    /\ UNCHANGED << TIMSK_TOIE, TIFR_TOV, timer_on, tick, histVars >>
    /\ UNCHANGED << rd, ret, held, reading, prev >>

AppCriticalExit ==
    /\ pc = "app"
    /\ DoCriticalExit
    /\ cs_reads' = IF Len(istate) = 1 THEN 0 ELSE cs_reads
    /\ UNCHANGED << build, prog, pc, cliVars, calc >>
    /\ UNCHANGED << TIMSK_TOIE, TIFR_TOV, timer_on, tick, histVars >>
    /\ UNCHANGED << rd, ret, held, reading, prev >>

AppInterruptsDisable ==
    /\ pc = "app"
    /\ istate = <<>>
    /\ SREG' = cli(SREG)
    /\ UNCHANGED << build, prog, pc, cliVars, calc >>
    /\ UNCHANGED << TIMSK_TOIE, TIFR_TOV, timer_on, tick >>
    /\ UNCHANGED << csVars, rdVars, histVars >>

AppInterruptsEnable ==
    /\ pc = "app"
    /\ istate = <<>>
    /\ SREG' = sei(SREG)
    /\ UNCHANGED << build, prog, pc, cliVars, calc >>
    /\ UNCHANGED << TIMSK_TOIE, TIFR_TOV, timer_on, tick >>
    /\ UNCHANGED << csVars, rdVars, histVars >>

\* a client that enables interrupts globally before it arms the timer interrupt
AppInterruptsEnableEarly ==
    /\ pc = "enable_tick"
    /\ prog = "app"
    /\ ~IFlag(SREG)
    /\ SREG' = sei(SREG)
    /\ UNCHANGED << build, prog, pc, cliVars, calc >>
    /\ UNCHANGED << TIMSK_TOIE, TIFR_TOV, timer_on, tick >>
    /\ UNCHANGED << csVars, rdVars, histVars >>

\* call of port_get_tick()
AppGetTick ==
    /\ pc = "app"
    /\ pc' = "gt_enter"
    /\ rd' = <<>>
    /\ ret' = <<>>
    /\ held' = {tick}
    /\ UNCHANGED << build, prog, cliVars, hwVars, csVars, histVars, calc >>
    /\ UNCHANGED << reading, prev, cs_reads >>

\* call of idle_wait_interrupt()
AppIdle ==
    /\ pc = "app"
    /\ pc' = "sleep"
    /\ UNCHANGED << build, prog, cliVars, hwVars, csVars, rdVars, histVars, calc >>

(***************************************************************************)
(* port_get_tick(): the counter is read inside a critical section with     *)
(* one load per byte (specification 4.2, now())                            *)
(***************************************************************************)
GetTickEnter ==
    /\ pc = "gt_enter"
    /\ DoCriticalEnter
    /\ pc' = "gt_read"
    /\ UNCHANGED << build, prog, cliVars, calc >>
    /\ UNCHANGED << TIMSK_TOIE, TIFR_TOV, timer_on, tick, histVars, rdVars >>

GetTickReadByte ==
    /\ pc = "gt_read"
    /\ rd' = Append(rd, tick[Len(rd) + 1])
    /\ IF Len(rd') = TickBytes
       THEN /\ pc' = "gt_exit"
            /\ reading' = [valid |-> TRUE, val |-> rd', n |-> nisr]
            /\ prev' = reading
            /\ cs_reads' = IF Len(istate) >= 2 THEN Min(cs_reads + 1, 2) ELSE 0
       ELSE UNCHANGED << pc, reading, prev, cs_reads >>
    /\ UNCHANGED << build, prog, cliVars, hwVars, csVars, histVars, calc >>
    /\ UNCHANGED << ret, held >>

GetTickExit ==
    /\ pc = "gt_exit"
    /\ DoCriticalExit
    /\ pc' = "gt_ret"
    /\ UNCHANGED << build, prog, cliVars, calc >>
    /\ UNCHANGED << TIMSK_TOIE, TIFR_TOV, timer_on, tick, histVars, rdVars >>

\* faulty variant: a read that also clears the counter
GetTickReturn_clears ==
    /\ pc = "gt_ret"
    /\ ret' = rd
    /\ tick' = tick_t_of(0)
    /\ pc' = "app"
    /\ UNCHANGED << build, prog, cliVars, csVars, histVars, calc >>
    /\ UNCHANGED << SREG, TIMSK_TOIE, TIFR_TOV, timer_on >>
    /\ UNCHANGED << rd, held, reading, prev, cs_reads >>

GetTickReturn ==
    /\ pc = "gt_ret"
    /\ ret' = rd
    /\ pc' = "app"
    /\ UNCHANGED << build, prog, cliVars, hwVars, csVars, histVars, calc >>
    /\ UNCHANGED << rd, held, reading, prev, cs_reads >>

InGetTick == pc \in {"gt_enter", "gt_read", "gt_exit", "gt_ret"}

(***************************************************************************)
(* Hardware: the timer and its overflow interrupt                          *)
(***************************************************************************)
\* the running timer overflows and raises its flag
TimerOverflow ==
    /\ timer_on
    /\ ~TIFR_TOV
    /\ TIFR_TOV' = TRUE
    /\ UNCHANGED << build, prog, pc, cliVars, calc >>
    /\ UNCHANGED << SREG, TIMSK_TOIE, timer_on, tick >>
    /\ UNCHANGED << csVars, rdVars, histVars >>

\* handler(): dispatched when the flag is pending, the timer interrupt armed
\* and interrupts globally enabled; it adds one to the counter, and a
\* processor sleeping in idle_wait_interrupt() resumes after it
TimerISR ==
    /\ IFlag(SREG)
    /\ TIMSK_TOIE
    /\ TIFR_TOV
    /\ nisr < MaxTicks
    /\ TIFR_TOV' = FALSE
    /\ tick' = tick_increment(tick)
    /\ nisr' = nisr + 1
    /\ held' = IF InGetTick THEN held \cup {tick'} ELSE held
    /\ cs_isr' = (cs_isr \/ istate # <<>>)
    /\ pc' = IF pc = "sleep" THEN "woke" ELSE pc
    /\ UNCHANGED << build, prog, cliVars, calc >>
    /\ UNCHANGED << SREG, TIMSK_TOIE, timer_on, csVars >>
    /\ UNCHANGED << rd, ret, reading, prev, cs_reads, tick0, slept, boot >>

\* idle_wait_interrupt() returns to its caller
IdleReturn ==
    /\ pc = "woke"
    /\ pc' = IF prog = "app" THEN "app" ELSE "idle"
    /\ slept' = TRUE
    /\ UNCHANGED << build, prog, cliVars, hwVars, csVars, rdVars, calc >>
    /\ UNCHANGED << tick0, nisr, cs_isr, boot >>

Next ==
    \/ MainOverrideArgs
    \/ TestOverrideArgs
    \/ TestUnityMain
    \/ AppInterruptsEnableEarly
    \/ PortInit
    \/ SerialInit
    \/ PortEnableTickInterrupt
    \/ MainInterruptsEnable
    \/ MainArgCheck
    \/ MainAtoi
    \/ MainAdd
    \/ MainPrintf
    \/ MainReturn
    \/ MainIdle
    \/ AppCriticalEnter
    \/ AppCriticalExit
    \/ AppInterruptsDisable
    \/ AppInterruptsEnable
    \/ AppGetTick
    \/ AppIdle
    \/ GetTickEnter
    \/ GetTickReadByte
    \/ GetTickExit
    \/ GetTickReturn
    \/ TimerOverflow
    \/ TimerISR
    \/ IdleReturn

Spec == Init /\ [][Next]_vars

\* the hardware keeps counting and dispatching, and the processor keeps
\* executing the instruction after a sleep
SpecLive ==
    /\ Spec
    /\ WF_vars(TimerOverflow)
    /\ WF_vars(TimerISR)
    /\ WF_vars(IdleReturn)

(***************************************************************************)
(* Compile-time arithmetic of port.h on its own: the tick rate for a       *)
(* configuration, and the delta of two readings k ticks apart.  The clock  *)
(* and prescaler values tried keep f_cpu / (256 prescaler) + 0.5 away from *)
(* an integer, where double rounding could differ from exact arithmetic.   *)
(***************************************************************************)
InitNum ==
    /\ build = "avr"
    /\ prog = "calc"
    /\ pc = "calc"
    /\ argc = 0
    /\ argv = <<>>
    /\ tick = tick_t_of(0)
    /\ tick0 = tick
    /\ InitLocals
    /\ InitHardware
    /\ InitHistory
    /\ calc \in [ t1 : TickStarts, k : DeltaCounts,
                  f_cpu : CpuClocks, prescaler : Prescalers,
                  t2 : {<<>>}, delta : {0}, tps : {<<>>} ]

\* t1 is read, k handler runs follow, t2 is read: (difftick_t)(t2 - t1)
CalcDelta ==
    /\ pc = "calc"
    /\ calc.t2 = <<>>
    /\ LET t2 == ticks_after(calc.t1, calc.k)
       IN  calc' = [calc EXCEPT !.t2 = t2, !.delta = tick_delta(t2, calc.t1)]
    /\ UNCHANGED << build, prog, pc, cliVars, hwVars, csVars, rdVars, histVars >>

CalcTicksPerSecond ==
    /\ pc = "calc"
    /\ calc.tps = <<>>
    /\ calc' = [calc EXCEPT !.tps = TICKS_PER_SECOND(calc.f_cpu, calc.prescaler)]
    /\ UNCHANGED << build, prog, pc, cliVars, hwVars, csVars, rdVars, histVars >>

NextNum ==
    \/ CalcDelta
    \/ CalcTicksPerSecond

SpecNum == InitNum /\ [][NextNum]_vars

(***************************************************************************)
(* Properties                                                              *)
(***************************************************************************)
\* the low and high 16-bit halves of a tick_t, as numbers
Lo16(w) == w[1] + ByteRange * w[2]
Hi16(w) == w[3] + ByteRange * w[4]

\* w = (w0 + n) mod 2^32, for a small number n
IsSumMod32(w, w0, n) ==
    /\ Lo16(w) = (Lo16(w0) + n) % (2 ^ 16)
    /\ Hi16(w) = (Hi16(w0) + (Lo16(w0) + n) \div (2 ^ 16)) % (2 ^ 16)

\* the number d (a difftick_t) equals the count k (a tick_t)
IsCount(d, k) ==
    /\ d >= 0
    /\ Lo16(k) = d % (2 ^ 16)
    /\ Hi16(k) = d \div (2 ^ 16)

\* C1: after N handler runs the counter, and every value port_get_tick reads,
\* is the initial value plus N modulo 2^32: each run adds exactly one and the
\* counter wraps to 0 without saturating.
TickIsInitialPlusN ==
    /\ IsSumMod32(tick, tick0, nisr)
    /\ reading.valid => IsSumMod32(reading.val, tick0, reading.n)

\* a reading of 0 taken after the counter wrapped from 2^32 - 2
TickWrappedReading ==
    /\ reading.valid
    /\ reading.n = 2
    /\ reading.val = <<0, 0, 0, 0>>
    /\ tick0 = <<254, 255, 255, 255>>

\* C2: two nested critical sections left in LIFO order restore the global
\* interrupt flag to its value before the outer CRITICAL_ENTER, whether
\* that was enabled or disabled.
NestingRestoresIFlag ==
    (cs_done.valid /\ cs_done.depth >= 2) =>
        IFlag(cs_done.post) = IFlag(cs_done.pre)

\* a nest of depth two or more, entered with interrupts enabled and a
\* handler run before it, has been left with interrupts enabled again
NestingCompleted ==
    /\ cs_done.valid
    /\ cs_done.depth >= 2
    /\ IFlag(cs_done.pre)
    /\ IFlag(cs_done.post)
    /\ pc = "app"
    /\ istate = <<>>
    /\ nisr > 0

\* C3: the value port_get_tick returns is one the counter held at some
\* instant of the call, never a mix of bytes of two values.
NoTornRead == ret # <<>> => ret \in held

\* a call during which the counter went from 255 to 256 (a carry into the second byte)
ReadAcrossCarry ==
    /\ ret # <<>>
    /\ <<255, 0, 0, 0>> \in held
    /\ <<0, 1, 0, 0>> \in held

\* C6: CRITICAL_ENTER captures SREG and disables interrupts, CRITICAL_EXIT
\* restores what the matching enter captured; so interrupts are disabled
\* wherever a critical section is open (also after an inner exit), and the
\* handler never runs there.
CriticalSectionMasks ==
    /\ istate # <<>> => ~IFlag(SREG)
    /\ ~cs_isr
    /\ istate = pre
    /\ cs_done.valid => cs_done.post = cs_done.pre

\* an inner section has been left, the outer one (entered with interrupts
\* enabled) is still open, and a timer overflow is pending
InnerExitedOuterOpen ==
    /\ pc = "app"
    /\ Len(istate) = 1
    /\ cs_max >= 2
    /\ IFlag(pre[1])
    /\ TIMSK_TOIE
    /\ TIFR_TOV

\* C7: two port_get_tick calls inside one critical section, after start-up,
\* return the same value.
SameTickInsideCriticalSection ==
    cs_reads >= 2 => reading.val = prev.val

\* the second reading inside a section entered with interrupts enabled,
\* with an overflow pending and earlier handler runs
TwoReadsOverflowPending ==
    /\ cs_reads >= 2
    /\ pc = "app"
    /\ ret = reading.val
    /\ IFlag(pre[Len(pre)])
    /\ TIMSK_TOIE
    /\ TIFR_TOV
    /\ nisr > 0

\* C4 as stated: for every count K of interrupts between the readings t1
\* and t2, (difftick_t)(t2 - t1) equals K.
TickDeltaEqualsK ==
    (pc = "calc" /\ calc.t2 # <<>>) => IsCount(calc.delta, calc.k)

\* C4 amended: for every count K < 2^31 of interrupts between the readings
\* t1 and t2, (difftick_t)(t2 - t1) equals K, also when the counter
\* overflows from 2^32 - 1 to 0 in between.
TickDeltaEqualsKBelowHalfRange ==
    (pc = "calc" /\ calc.t2 # <<>> /\ calc.k[TickBytes] < ByteRange \div 2) =>
        IsCount(calc.delta, calc.k)

\* a delta taken across the overflow: t1 = 2^32 - 2, three interrupts, t2 = 1
DeltaAcrossOverflow ==
    /\ pc = "calc"
    /\ calc.t1 = <<254, 255, 255, 255>>
    /\ calc.t2 = <<1, 0, 0, 0>>
    /\ calc.k = <<3, 0, 0, 0>>
    /\ calc.delta = 3

\* C5: idle_wait_interrupt called with interrupts enabled and the timer
\* interrupt armed returns: in main's idle loop every call returns to the
\* loop, for any caller the processor leaves the sleep, and it does so in
\* the step that services the next timer interrupt.  (Handler runs are
\* explored up to MaxTicks.)
IdleWaitReturns ==
    /\ (pc = "sleep" /\ prog = "prodmain" /\ nisr < MaxTicks) ~> (pc = "idle")
    /\ (pc = "sleep" /\ IFlag(SREG) /\ TIMSK_TOIE /\ nisr < MaxTicks) ~> (pc # "sleep")
    /\ [][(pc = "sleep" /\ nisr' # nisr) => pc' = "woke"]_vars

\* main is back in its loop after an idle wait that a timer interrupt ended
IdleWaitReturned ==
    /\ prog = "prodmain"
    /\ pc = "idle"
    /\ slept
    /\ nisr > 0

\* C8: with F_CPU = 16000000 and TIMER_PRESCALER = 64, TICKS_PER_SECOND is 977.
TicksPerSecondIs977 ==
    (pc = "calc" /\ calc.tps # <<>> /\ calc.f_cpu = F_CPU /\ calc.prescaler = TIMER_PRESCALER) =>
        (Lo16(calc.tps) = 977 /\ Hi16(calc.tps) = 0)

\* the tick rate has been computed for the configuration of port.h
TicksPerSecondComputed ==
    /\ pc = "calc"
    /\ calc.tps # <<>>
    /\ calc.f_cpu = 16000000
    /\ calc.prescaler = 64

\* a command-line word that is a decimal number: an optional sign and digits only
IsNumber(w) ==
    LET d == IF w # <<>> /\ w[1] \in {"-", "+"} THEN Tail(w) ELSE w
    IN  d # <<>> /\ \A i \in 1..Len(d) : isdigit(d[i])

TwoNumbersGiven == argc = 3 /\ IsNumber(argv[2]) /\ IsNumber(argv[3])

\* C9 as stated: the native program exits with 0 on success and with 1
\* whenever the command line does not supply exactly two numeric arguments.
ExitOneUnlessTwoNumbers ==
    (build = "native" /\ pc = "exited") =>
        exit_code = IF TwoNumbersGiven THEN {0} ELSE {1}

\* C9 amended: the native program exits with 1 exactly when the command
\* line does not supply exactly two arguments (argc # 3), after writing the
\* usage error to the error stream and nothing to the output; with two
\* arguments, numeric or not, it exits with 0 and writes no error.
ExitOneIffNotTwoArguments ==
    (build = "native" /\ pc = "exited") =>
        /\ exit_code = IF argc = 3 THEN {0} ELSE {1}
        /\ exit_code = {1} =>
            /\ err = << <<"Usage: ">> \o argv[1] \o <<" A B", "\n">>,
                        <<"ERROR: expected two arguments", "\n">> >>
            /\ out = <<>>
        /\ exit_code = {0} => (err = <<>> /\ Len(out) = 1)

\* a usage error for a command line with three arguments
UsageErrorExit ==
    /\ build = "native"
    /\ pc = "exited"
    /\ argc = 4
    /\ exit_code = {1}
    /\ Len(err) = 2

\* C10: add(a, b) is a + b, so 0 is an identity on either side, and the
\* program prints add(atoi(A), atoi(B)) for its arguments A and B.
PrintsSumOfArguments ==
    /\ add(0, 0) = 0 /\ add(0, 1) = 1 /\ add(1, 0) = 1 /\ add(1, 2) = 3 /\ add(2, 3) = 5
    /\ (prog = "prodmain" /\ out # <<>>) =>
        /\ result = a + b
        /\ a = 0 => result = b
        /\ b = 0 => result = a
        /\ out = << fmt_d(atoi(argv[2]) + atoi(argv[3])) \o <<"\n">> >>
        /\ (argv[2] = <<"1">> /\ argv[3] = <<"2">>) => out = << <<"3", "\n">> >>
        /\ (argv[2] = <<"-", "3">> /\ argv[3] = <<"1", "2">>) => out = << <<"9", "\n">> >>
        /\ (argv[2] = <<"1">> /\ argv[3] = <<"-", "3">>) => out = << <<"-", "2", "\n">> >>
        /\ (argv[2] = <<"3", "x">> /\ argv[3] = <<"x">>) => out = << <<"3", "\n">> >>
        /\ (argv[2] = <<"1", "2">> /\ argv[3] = <<"1", "2">>) => out = << <<"2", "4", "\n">> >>

\* the native program has printed 9 for the arguments -3 and 12
PrintedNine ==
    /\ build = "native"
    /\ pc = "exited"
    /\ argc = 3
    /\ argv[2] = <<"-", "3">>
    /\ argv[3] = <<"1", "2">>
    /\ out = << <<"9", "\n">> >>
    /\ exit_code = {0}

\* x <= y for two tick_t values compared as unsigned numbers
UnsignedLeq(x, y) ==
    \/ Hi16(x) < Hi16(y)
    \/ Hi16(x) = Hi16(y) /\ Lo16(x) <= Lo16(y)

\* the counter does not pass from 2^32 - 1 to 0 within k ticks after value x
NoWrapWithin(x, k) == Hi16(x) + (Lo16(x) + k) \div (2 ^ 16) < 2 ^ 16

\* C11 as stated: of any two reads of port_get_tick the later returns a value
\* greater than or equal to the earlier one, and a strictly greater one if a
\* timer interrupt was serviced in between.
TickNeverDecreases ==
    prev.valid =>
        /\ UnsignedLeq(prev.val, reading.val)
        /\ reading.n > prev.n => reading.val # prev.val

\* C11 amended: the counter increases modulo 2^32.  Of any two reads the
\* later is greater than or equal to the earlier one (strictly greater after
\* an interrupt in between) unless the counter wrapped from 2^32 - 1 to 0 in
\* between; in every case the wraparound-correct delta of the later and the
\* earlier read is >= 0, and > 0 after an interrupt in between.
TickIncreasesModuloWrap ==
    prev.valid =>
        /\ reading.n >= prev.n
        /\ tick_delta(reading.val, prev.val) >= 0
        /\ reading.n > prev.n => tick_delta(reading.val, prev.val) > 0
        /\ NoWrapWithin(prev.val, reading.n - prev.n) =>
            /\ UnsignedLeq(prev.val, reading.val)
            /\ reading.n > prev.n => reading.val # prev.val

\* two reads with the wrap in between: 2^32 - 1, then 0
ReadsAcrossWrap ==
    /\ prev.valid
    /\ prev.val = <<255, 255, 255, 255>>
    /\ reading.val = <<0, 0, 0, 0>>
    /\ reading.n = prev.n + 1
    /\ pc = "app"

\* the two entry points of the AVR build
IsMain == build = "avr" /\ prog \in {"prodmain", "testmain"}

\* main has executed INTERRUPTS_ENABLE() (line 20)
StartupDone == Len(boot) = 4

\* C12: port_init leaves the timer interrupt disabled: before
\* port_enable_tick_interrupt no handler runs and the counter keeps its
\* value, also with interrupts globally enabled and an overflow pending; a
\* handler run always serves a pending overflow of the armed timer with
\* interrupts enabled; and once main has armed the timer and enabled
\* interrupts, every overflow is served by a handler run.  (Handler runs are
\* explored up to MaxTicks.)
TimerInterruptOffUntilArmed ==
    /\ [](~TIMSK_TOIE => (nisr = 0 /\ tick = tick0))
    /\ [](pc \in {"serial_init", "enable_tick"} => (timer_on /\ ~TIMSK_TOIE))
    /\ [][nisr' # nisr => (TIMSK_TOIE /\ IFlag(SREG) /\ TIFR_TOV /\ ~TIFR_TOV')]_vars
    /\ (IsMain /\ StartupDone /\ TIFR_TOV /\ nisr < MaxTicks) ~> ~TIFR_TOV

\* before port_enable_tick_interrupt: interrupts globally enabled, an
\* overflow pending, and no handler run
OverflowPendingBeforeArmed ==
    /\ pc = "enable_tick"
    /\ timer_on
    /\ ~TIMSK_TOIE
    /\ IFlag(SREG)
    /\ TIFR_TOV
    /\ nisr = 0

\* C13: the counter is written only by the handler: a step that changes it
\* is a handler run, so port_get_tick and idle_wait_interrupt leave it as it
\* is; and a step that opens or closes a critical section changes nothing
\* of the port layer but SREG.
CounterWrittenOnlyByHandler ==
    [][ /\ tick' # tick => (nisr' = nisr + 1 /\ TIFR_TOV /\ ~TIFR_TOV')
        /\ istate' # istate =>
            /\ tick' = tick
            /\ nisr' = nisr
            /\ TIMSK_TOIE' = TIMSK_TOIE
            /\ TIFR_TOV' = TIFR_TOV
            /\ timer_on' = timer_on
            /\ rd' = rd
        /\ (pc = "gt_ret" /\ pc' = "app") => tick' = tick
        /\ (pc = "woke" /\ pc' # "woke") => tick' = tick ]_vars

\* after nested critical sections, a completed read and a completed idle
\* wait, the counter is its initial value plus the handler runs
CounterAfterAllOperations ==
    /\ pc = "app"
    /\ cs_done.valid
    /\ cs_done.depth >= 2
    /\ ret # <<>>
    /\ slept
    /\ nisr = 1
    /\ IsSumMod32(tick, tick0, 1)

\* the start-up calls of main, in the order of lines 17-20
BootOrder ==
    << "port_init", "serial_init", "port_enable_tick_interrupt", "INTERRUPTS_ENABLE" >>

\* C14: in both AVR entry points port_init is called once and before
\* port_enable_tick_interrupt, which is called before INTERRUPTS_ENABLE;
\* every idle_wait_interrupt call comes after all three, with the timer
\* armed and interrupts globally enabled, and returns to the loop.
\* (Handler runs are explored up to MaxTicks.)
StartupBeforeIdle ==
    /\ [](IsMain => (Len(boot) <= Len(BootOrder) /\ boot = SubSeq(BootOrder, 1, Len(boot))))
    /\ [](IsMain /\ pc \in {"unity", "argcheck", "atoi", "add", "printf", "idle", "sleep", "woke"}
            => boot = BootOrder)
    /\ [](IsMain /\ pc = "sleep" => (timer_on /\ TIMSK_TOIE /\ IFlag(SREG)))
    /\ (IsMain /\ pc = "sleep" /\ nisr < MaxTicks) ~> (pc = "idle")

\* the test program waits in its idle loop again after an earlier wait returned
TestMainIdlesAgain ==
    /\ build = "avr"
    /\ prog = "testmain"
    /\ pc = "sleep"
    /\ slept
    /\ boot = BootOrder
    /\ IFlag(SREG)

IdleLoop == {"idle", "sleep", "woke"}

\* C15: the production main of the AVR build never returns: its command
\* line is the fixed exec 1 2, the usage error is never reported, 3 is
\* printed exactly once, and from then on main stays in the loop around
\* idle_wait_interrupt; return 0 is not reached.
AvrMainNeverReturns ==
    /\ []((build = "avr" /\ prog = "prodmain") =>
            /\ pc \notin {"return0", "exited"}
            /\ exit_code = {}
            /\ err = <<>>
            /\ pc # "start" => (argc = 3 /\ argv = << <<"e", "x", "e", "c">>, <<"1">>, <<"2">> >>)
            /\ out = IF pc \in IdleLoop THEN << <<"3", "\n">> >> ELSE <<>>)
    /\ [][(build = "avr" /\ prog = "prodmain" /\ pc \in IdleLoop) => pc' \in IdleLoop]_vars

\* the production main waits in its loop again, 3 printed once
AvrMainInLoop ==
    /\ build = "avr"
    /\ prog = "prodmain"
    /\ pc = "sleep"
    /\ slept
    /\ out = << <<"3", "\n">> >>
    /\ exit_code = {}

====
